---- MODULE Spec2Model ----
(***************************************************************************)
(* download-icons.js: the icon fetcher.  main() walks the ICONS catalog in *)
(* order; downloadIcon(key, suffix) resolves one target file: existence    *)
(* check, primary source (assets.chanhdai.com), fallback source (Simple    *)
(* Icons), report.  download(url) is the HTTPS GET primitive, which        *)
(* follows redirects.  One action per suspension point of the two async    *)
(* functions and per network event handler.                                *)
(***************************************************************************)
EXTENDS Integers, Sequences, FiniteSets, TLC

\* ------------------------------------------------------------------ bounds
\* How many entries of the catalog the run walks.
NumIcons == 3
\* The redirect counter of the current fetch saturates here (a history
\* variable: the fetch itself has no limit).
MaxHops == 2

\* ------------------------------------------------------- constants, catalog
\* JavaScript's undefined / a file that is not on disk.
None == "<none>"

\* A run of consecutive entries of the catalog (expressjs to postgresql), in
\* catalog order: themed with a slug, plain with a slug, plain without one
\* ("" is a missing simpleIconsSlug: both are falsy in `icon?.simpleIconsSlug`).
AllIcons ==
  << [key |-> "expressjs",  hasTheme |-> TRUE,  simpleIconsSlug |-> "express"],
     [key |-> "honojs",     hasTheme |-> FALSE, simpleIconsSlug |-> "hono"],
     [key |-> "mysql",      hasTheme |-> FALSE, simpleIconsSlug |-> ""],
     [key |-> "mongodb",    hasTheme |-> FALSE, simpleIconsSlug |-> ""],
     [key |-> "redis",      hasTheme |-> FALSE, simpleIconsSlug |-> ""],
     [key |-> "postgresql", hasTheme |-> FALSE, simpleIconsSlug |-> "postgresql"] >>

\* The entries the run walks.
ICONS == SubSeq(AllIcons, 1, IF NumIcons < Len(AllIcons) THEN NumIcons ELSE Len(AllIcons))

CHANHDAI_BASE == "https://assets.chanhdai.com/images/tech-stack-icons"

SIMPLE_ICONS_BASE == "https://cdn.simpleicons.org"

\* const filename = suffix ? `${key}${suffix}.svg` : `${key}.svg`
Filename(k, s) == IF s # "" THEN k \o s \o ".svg" ELSE k \o ".svg"

\* `${CHANHDAI_BASE}/${filename}`
PrimaryUrl(filename) == CHANHDAI_BASE \o "/" \o filename

\* Faulty variant: the fallback URL is built from the key, not from the slug.
FallbackUrl_FromKey(icon) == SIMPLE_ICONS_BASE \o "/" \o icon.key

\* `${SIMPLE_ICONS_BASE}/${icon.simpleIconsSlug}`
FallbackUrl(icon) == SIMPLE_ICONS_BASE \o "/" \o icon.simpleIconsSlug

\* The target files of one catalog entry, in the order main() resolves them.
Targets(icon) ==
  IF icon.hasTheme
    THEN << Filename(icon.key, "-light"), Filename(icon.key, "-dark") >>
    ELSE << Filename(icon.key, "") >>

RECURSIVE TargetsUpTo(_)
\* The target files of the first n entries, in resolution order.
TargetsUpTo(n) == IF n = 0 THEN << >> ELSE TargetsUpTo(n - 1) \o Targets(ICONS[n])

TargetSeq == TargetsUpTo(Len(ICONS))

Files == { TargetSeq[n] : n \in 1..Len(TargetSeq) }

\* ICONS.find(i => i.key === key)
Find(k) == ICONS[CHOOSE n \in 1..Len(ICONS) :
                   /\ ICONS[n].key = k
                   /\ \A m \in 1..(n - 1) : ICONS[m].key # k]

\* ------------------------------------------------------------ the network
\* The Simple Icons URLs the catalog names.
FallbackUrls ==
  { FallbackUrl(ICONS[n]) : n \in { m \in 1..Len(ICONS) : ICONS[m].simpleIconsSlug # "" } }

\* URLs a Location header may name.
Mirrors == { "https://mirror.example/icon.svg" }

StatusCodes == { 200, 300, 302, 399, 404 }

\* A Location header https.get cannot fetch (a relative reference): the
\* call throws inside the promise executor, which rejects the promise.
RelativeRef == "/icon.svg"

\* What a server may answer: a status line, an optional Location header,
\* and whether the body stream ends ('end') or breaks ('error').
AllResponses ==
  [statusCode : StatusCodes, location : Mirrors \cup {RelativeRef, None}, complete : BOOLEAN]

\* The body a URL serves is identified by the URL.
Body(u) == u

\* What a write that threw may leave behind: a truncated file.
Truncated == "<truncated>"

VARIABLES
  disk,       \* OUTPUT_DIR: file name -> content, None when absent
  disk0,      \* the disk when the current run started
  prior,      \* an earlier run of the program has completed
  served,     \* Simple Icons: fallback URL -> it answers 200 with the icon
  idx,        \* main: position of `icon` in ICONS
  pc,         \* main: "loop", "light", "dark", "single", "done"
  dpc,        \* downloadIcon: "idle", "await" (a download is awaited), "ret"
  key,        \* downloadIcon: key
  suffix,     \* downloadIcon: suffix
  src,        \* downloadIcon: the source being tried
  svg,        \* downloadIcon: svg, None until a download resolves
  ok,         \* downloadIcon: the value returned
  lightOk,    \* main: lightOk
  success,    \* main: success
  failed,     \* main: failed
  pending,    \* https.get requests without a response yet
  hops,       \* redirects followed by the current fetch (saturating)
  werr,       \* the sources whose write threw in the current resolution
  out,        \* the per-file progress lines, <<filename, tag>>
  requested   \* <<filename, source>>: the fetches started in this run

vars == << disk, disk0, prior, served, idx, pc, dpc, key, suffix, src, svg, ok,
           lightOk, success, failed, pending, hops, werr, out, requested >>

\* The one answer of a fallback URL that Simple Icons serves.
Good == { r \in AllResponses : r.statusCode = 200 /\ r.complete /\ r.location = None }

\* What the server of u may answer to one request.
Responses(u) ==
  IF u \in DOMAIN served
    THEN IF served[u] THEN Good ELSE AllResponses \ Good
    ELSE AllResponses

\* ------------------------------------------------------------- filesystem
\* Faulty variant: the existence check is inverted.
ExistsSync_Inverted(d, filename) == d[filename] = None

\* Faulty variant: the existence check is missing.
ExistsSync_Never(d, filename) == FALSE

\* fs.existsSync(outputPath)
ExistsSync(d, filename) == d[filename] # None

\* fs.writeFileSync(outputPath, svg)
WriteFileSync(d, filename, data) == [d EXCEPT ![filename] = data]

\* fs.writeFileSync(outputPath, svg) throwing: the file is as it was, or
\* was opened and truncated before the error.
WriteFileSyncThrows(d, filename) == { d, [d EXCEPT ![filename] = Truncated] }

\* --------------------------------------------------------------- download
\* https.get(url, ...) accepts the URL.
CanGet(u) == u # RelativeRef

\* https.get(url, ...): one more request in flight.
HttpsGet(p, u) == p \cup {u}

\* Faulty variant: the lower bound of the redirect range is off by one.
IsRedirect_Above300(r) == r.statusCode > 300 /\ r.statusCode < 400 /\ r.location # None

\* response.statusCode >= 300 && response.statusCode < 400 && response.headers.location
IsRedirect(r) == r.statusCode >= 300 /\ r.statusCode < 400 /\ r.location # None

Bump(h) == IF h < MaxHops THEN h + 1 ELSE h

\* ----------------------------------------------------------- downloadIcon
\* Faulty variant: the fallback is never tried.
FallbackEligible_Never(icon, s) == FALSE

\* Faulty variant: the fallback is tried for themed variants too.
FallbackEligible_AnySuffix(icon, s) == icon.simpleIconsSlug # ""

\* icon?.simpleIconsSlug && !suffix
FallbackEligible(icon, s) == icon.simpleIconsSlug # "" /\ s = ""

\* console.log of a progress line.
Log(o, filename, tag) == Append(o, << filename, tag >>)

\* downloadIcon(k, s) up to its first await or its return.
DownloadIcon(k, s) ==
  LET filename == Filename(k, s) IN
  /\ key' = k
  /\ suffix' = s
  /\ hops' = 0
  /\ svg' = None
  /\ werr' = {}
  /\ IF ExistsSync(disk, filename)
       THEN /\ out' = Log(out, filename, "exists")
            /\ ok' = TRUE
            /\ dpc' = "ret"
            /\ src' = "none"
            /\ UNCHANGED << pending, requested >>
       ELSE /\ pending' = HttpsGet(pending, PrimaryUrl(filename))
            /\ requested' = Append(requested, << filename, "chanhdai" >>)
            /\ src' = "chanhdai"
            /\ dpc' = "await"
            /\ ok' = FALSE
            /\ UNCHANGED out
  /\ UNCHANGED disk

\* console.log(`x ${filename} (not found)`); return false
NotFound(u) ==
  /\ out' = Log(out, Filename(key, suffix), "not found")
  /\ ok' = FALSE
  /\ dpc' = "ret"
  /\ pending' = pending \ {u}
  /\ UNCHANGED << src, requested, key, suffix, hops >>

\* The try block of the source being tried threw while u was the request
\* awaited: the catch blocks of downloadIcon.
Catch(u) ==
  LET icon == Find(key) IN
  IF src = "chanhdai" /\ FallbackEligible(icon, suffix)
    THEN /\ pending' = HttpsGet(pending \ {u}, FallbackUrl(icon))
         /\ requested' = Append(requested, << Filename(key, suffix), "simpleicons" >>)
         /\ src' = "simpleicons"
         /\ hops' = 0
         /\ UNCHANGED << out, ok, dpc, key, suffix >>
    ELSE NotFound(u)

\* The awaited download rejected: nothing was fetched, nothing is written.
Rejected(u) ==
  /\ Catch(u)
  /\ svg' = None
  /\ UNCHANGED << disk, werr >>

\* The awaited download of u resolved with data: write, report, return true.
Resolved(u, data) ==
  /\ svg' = data
  /\ disk' = WriteFileSync(disk, Filename(key, suffix), data)
  /\ out' = Log(out, Filename(key, suffix), src)
  /\ ok' = TRUE
  /\ dpc' = "ret"
  /\ pending' = pending \ {u}
  /\ UNCHANGED << src, requested, key, suffix, hops, werr >>

\* Faulty variant: the error of the write is swallowed and the file reported.
WriteError_Swallowed(u) ==
  /\ out' = Log(out, Filename(key, suffix), src)
  /\ ok' = TRUE
  /\ dpc' = "ret"
  /\ pending' = pending \ {u}
  /\ UNCHANGED << src, requested, key, suffix, hops >>

\* The awaited download of u resolved with data and the write threw: the
\* throw lands in the catch block of the try it is in.
WriteError(u) == Catch(u)

MainFrame == UNCHANGED << disk0, prior, served >>

NetFrame == UNCHANGED << disk0, prior, served, idx, pc, lightOk, success, failed >>

\* download(response.headers.location).then(resolve).catch(reject)
Follow(u, location) ==
  IF CanGet(location)
    THEN /\ pending' = HttpsGet(pending \ {u}, location)
         /\ hops' = Bump(hops)
         /\ UNCHANGED << disk, dpc, key, suffix, src, svg, ok, out, requested, werr >>
    ELSE Rejected(u)

\* The callbacks of https.get(url, ...) for the request u answered with r,
\* and what downloadIcon then does with the settled promise.
Respond(u, r) ==
  IF IsRedirect(r)
    THEN Follow(u, r.location)
    ELSE IF r.statusCode # 200
           THEN Rejected(u)
           ELSE IF r.complete THEN Resolved(u, Body(u)) ELSE Rejected(u)

\* ------------------------------------------------------ network handlers
\* A 3xx response with a Location header.
ResponseRedirect ==
  /\ dpc = "await"
  /\ \E u \in pending : \E r \in Responses(u) : IsRedirect(r) /\ Respond(u, r)
  /\ NetFrame

\* Any other response that is not 200: reject(new Error(`HTTP ...`)).
ResponseNot200 ==
  /\ dpc = "await"
  /\ \E u \in pending : \E r \in Responses(u) :
       ~IsRedirect(r) /\ r.statusCode # 200 /\ Respond(u, r)
  /\ NetFrame

\* A 200 response whose body arrives whole: resolve(data).
ResponseEnd ==
  /\ dpc = "await"
  /\ \E u \in pending : \E r \in Responses(u) :
       ~IsRedirect(r) /\ r.statusCode = 200 /\ r.complete /\ Respond(u, r)
  /\ NetFrame

\* A 200 response whose body stream breaks: response.on('error', reject).
ResponseError ==
  /\ dpc = "await"
  /\ \E u \in pending : \E r \in Responses(u) :
       ~IsRedirect(r) /\ r.statusCode = 200 /\ ~r.complete /\ Respond(u, r)
  /\ NetFrame

\* No response at all: https.get(...).on('error', reject).
RequestError ==
  /\ dpc = "await"
  /\ \E u \in pending : Responses(u) # Good /\ Rejected(u)
  /\ NetFrame

\* A 200 response whose body arrives whole, and fs.writeFileSync throws.
WriteFileFails ==
  /\ dpc = "await"
  /\ \E u \in pending : \E r \in Responses(u) :
       /\ ~IsRedirect(r) /\ r.statusCode = 200 /\ r.complete
       /\ svg' = Body(u)
       /\ disk' \in WriteFileSyncThrows(disk, Filename(key, suffix))
       /\ werr' = werr \cup {src}
       /\ WriteError(u)
  /\ NetFrame

\* ------------------------------------------------------------------- main
\* Faulty variant: the dark variant is resolved first.
ThemeSuffixes_DarkFirst == << "-dark", "-light" >>

\* The suffixes of a themed entry, in the order main() resolves them.
ThemeSuffixes == << "-light", "-dark" >>

\* Faulty variant: one variant is enough.
BothOk_Either(l, d) == l \/ d

\* lightOk && darkOk
BothOk(l, d) == l /\ d

\* Faulty variant: a failed entry is not counted.
Count_DropsFailed(s, f, good) == IF good THEN << s + 1, f >> ELSE << s, f >>

\* if (...) success++; else failed++
Count(s, f, good) == IF good THEN << s + 1, f >> ELSE << s, f + 1 >>

\* for (const icon of ICONS), a themed entry: downloadIcon(icon.key, '-light')
LoopThemed ==
  /\ pc = "loop"
  /\ idx <= Len(ICONS)
  /\ ICONS[idx].hasTheme
  /\ DownloadIcon(ICONS[idx].key, ThemeSuffixes[1])
  /\ pc' = "light"
  /\ UNCHANGED << idx, lightOk, success, failed >>
  /\ MainFrame

\* for (const icon of ICONS), a plain entry: downloadIcon(icon.key)
LoopSingle ==
  /\ pc = "loop"
  /\ idx <= Len(ICONS)
  /\ ~ICONS[idx].hasTheme
  /\ DownloadIcon(ICONS[idx].key, "")
  /\ pc' = "single"
  /\ UNCHANGED << idx, lightOk, success, failed >>
  /\ MainFrame

\* const lightOk = await ...; then downloadIcon(icon.key, '-dark')
LightReturns ==
  /\ pc = "light"
  /\ dpc = "ret"
  /\ lightOk' = ok
  /\ DownloadIcon(ICONS[idx].key, ThemeSuffixes[2])
  /\ pc' = "dark"
  /\ UNCHANGED << idx, success, failed >>
  /\ MainFrame

\* The end of one iteration: the locals go out of scope.
NextIcon ==
  /\ idx' = idx + 1
  /\ pc' = "loop"
  /\ dpc' = "idle"
  /\ key' = None
  /\ suffix' = ""
  /\ src' = "none"
  /\ svg' = None
  /\ ok' = FALSE
  /\ lightOk' = FALSE
  /\ hops' = 0
  /\ werr' = {}
  /\ UNCHANGED << disk, pending, out, requested >>
  /\ MainFrame

\* const darkOk = await ...; if (lightOk && darkOk) success++; else failed++
DarkReturns ==
  /\ pc = "dark"
  /\ dpc = "ret"
  /\ success' = Count(success, failed, BothOk(lightOk, ok))[1]
  /\ failed' = Count(success, failed, BothOk(lightOk, ok))[2]
  /\ NextIcon

\* const ok = await downloadIcon(icon.key); if (ok) success++; else failed++
SingleReturns ==
  /\ pc = "single"
  /\ dpc = "ret"
  /\ success' = Count(success, failed, ok)[1]
  /\ failed' = Count(success, failed, ok)[2]
  /\ NextIcon

\* The loop is over: console.log(`Done! ...`) and the next steps.
Summary ==
  /\ pc = "loop"
  /\ idx > Len(ICONS)
  /\ pc' = "done"
  /\ UNCHANGED << disk, disk0, prior, served, idx, dpc, key, suffix, src, svg, ok,
                  lightOk, success, failed, pending, hops, werr, out, requested >>

\* The program is started again on the directory the last run left.
Rerun ==
  /\ pc = "done"
  /\ pc' = "loop"
  /\ idx' = 1
  /\ disk0' = disk
  /\ prior' = TRUE
  /\ success' = 0
  /\ failed' = 0
  /\ out' = << >>
  /\ requested' = << >>
  /\ UNCHANGED << disk, served, dpc, key, suffix, src, svg, ok, lightOk, pending,
                  hops, werr >>

Init ==
  /\ disk \in [Files -> {None, "old"}]
  /\ disk0 = disk
  /\ prior = FALSE
  /\ served \in [FallbackUrls -> BOOLEAN]
  /\ idx = 1
  /\ pc = "loop"
  /\ dpc = "idle"
  /\ key = None
  /\ suffix = ""
  /\ src = "none"
  /\ svg = None
  /\ ok = FALSE
  /\ lightOk = FALSE
  /\ success = 0
  /\ failed = 0
  /\ pending = {}
  /\ hops = 0
  /\ werr = {}
  /\ out = << >>
  /\ requested = << >>

\* One run of the program on a filesystem whose writes succeed.
Run ==
  \/ LoopThemed
  \/ LoopSingle
  \/ LightReturns
  \/ DarkReturns
  \/ SingleReturns
  \/ Summary
  \/ ResponseRedirect
  \/ ResponseNot200
  \/ ResponseEnd
  \/ ResponseError
  \/ RequestError

Next == Run \/ Rerun

\* Runs of the program, one after the other.
Spec == Init /\ [][Next]_vars

\* One run of the program.
RunSpec == Init /\ [][Run]_vars

\* The event loop runs the continuation of main() that is ready.
Continues == LoopThemed \/ LoopSingle \/ LightReturns \/ DarkReturns \/ SingleReturns \/ Summary

\* The awaited download settles: its request, or the last request of its
\* redirect chain, is answered with something that is not a redirect to follow.
Settles == ResponseNot200 \/ ResponseEnd \/ ResponseError \/ RequestError

\* One run in which every request is answered in the end and no redirect
\* chain goes on for ever.
LiveSpec == RunSpec /\ WF_vars(Continues) /\ WF_vars(Settles)

NextFS == Run \/ WriteFileFails

\* One run on a filesystem whose writes may throw.
SpecFS == Init /\ [][NextFS]_vars

\* ----------------------------------------------------------------- claims
\* The file the current call of downloadIcon resolves.
CurFile == Filename(key, suffix)

\* The progress lines printed so far, as a set.
Lines == { out[n] : n \in 1..Len(out) }

\* The files some fetch was started for in this run, and from which source.
Requests == { requested[n] : n \in 1..Len(requested) }

ThemedKeys == { ICONS[n].key : n \in { m \in 1..Len(ICONS) : ICONS[m].hasTheme } }

ThemedFiles == { k \o "-light.svg" : k \in ThemedKeys } \cup { k \o "-dark.svg" : k \in ThemedKeys }

MirrorBodies == { Body(m) : m \in Mirrors }

\* A call of downloadIcon begins in this step.
Begins == pc' # pc /\ pc' \in {"light", "dark", "single"}

\* C1: a resolution that finds its target file on disk issues no request,
\* leaves the disk alone and returns true; so a file that was there when the
\* run started keeps its content, and no fetch is started for it.
C1_ExistenceShortCircuit ==
  /\ [](\A f \in Files : disk0[f] # None =>
          /\ disk[f] = disk0[f]
          /\ \A q \in Requests : q[1] # f)
  /\ [][(Begins /\ disk[Filename(key', suffix')] # None) =>
          /\ pending' = {}
          /\ requested' = requested
          /\ disk' = disk
          /\ dpc' = "ret"
          /\ ok' = TRUE]_vars

C1_Witness ==
  /\ pc = "done"
  /\ \E f \in Files : disk0[f] = "old" /\ disk[f] = "old" /\ << f, "exists" >> \in Lines
  /\ \E g \in Files : disk0[g] = None /\ disk[g] # None

\* C2: no fetch from the fallback source is ever started for a themed file;
\* a themed resolution whose primary fetch failed returns false, prints
\* "not found" and writes nothing, with or without a simpleIconsSlug.
C2_FallbackGating ==
  /\ \A q \in Requests : q[2] = "simpleicons" => q[1] \notin ThemedFiles
  /\ (dpc # "idle" /\ suffix # "") => src # "simpleicons"
  /\ (dpc = "ret" /\ suffix # "" /\ src = "chanhdai" /\ svg = None) =>
       /\ ~ok
       /\ disk[CurFile] = None
       /\ out[Len(out)] = << CurFile, "not found" >>
  /\ pc = "done" =>
       \A k \in ThemedKeys :
         ({ << k \o "-light.svg", "not found" >>, << k \o "-dark.svg", "not found" >> } \subseteq Lines)
           => disk[k \o "-light.svg"] = None /\ disk[k \o "-dark.svg"] = None

C2_Witness ==
  /\ pc = "done"
  /\ served[SIMPLE_ICONS_BASE \o "/express"]
  /\ { << "expressjs-light.svg", "not found" >>, << "expressjs-dark.svg", "not found" >> } \subseteq Lines
  /\ disk["expressjs-light.svg"] = None
  /\ disk["expressjs-dark.svg"] = None
  /\ failed >= 1

C4_Idempotence == (pc = "done" /\ prior) => (disk = disk0 /\ requested = << >>)

\* C4 as amended: a later run keeps every file the earlier run left, with its
\* content, and starts fetches exactly for the target files that were absent
\* when it started; so it starts none and leaves the disk as it was when
\* every target file was there.
C4_RerunFetchesOnlyMissing ==
  prior =>
    /\ \A f \in Files : disk0[f] # None => disk[f] = disk0[f]
    /\ \A q \in Requests : disk0[q[1]] = None
    /\ pc = "done" => { q[1] : q \in Requests } = { f \in Files : disk0[f] = None }
    /\ (\A f \in Files : disk0[f] # None) => (requested = << >> /\ disk = disk0)

C4_Witness ==
  /\ pc = "done"
  /\ prior
  /\ requested = << >>
  /\ \A f \in Files : disk[f] # None
  /\ \E f \in Files : disk[f] # "old"

\* The fetch of f from the primary source returned its content in this run.
PrimaryGave(f) == << f, "chanhdai" >> \in Lines

C6_ThemedCounting ==
  /\ [][(pc = "dark" /\ pc' = "loop") =>
          /\ Len(out) >= 2
          /\ out[Len(out) - 1][1] = ICONS[idx].key \o "-light.svg"
          /\ out[Len(out)][1] = ICONS[idx].key \o "-dark.svg"
          /\ IF out[Len(out) - 1][2] # "not found" /\ out[Len(out)][2] # "not found"
               THEN success' = success + 1 /\ failed' = failed
               ELSE success' = success /\ failed' = failed + 1]_vars
  /\ [](\A k \in ThemedKeys :
          << k \o "-light.svg", "chanhdai" >> \in Lines => disk[k \o "-light.svg"] \notin {None, "old"})

C6_Witness ==
  /\ pc = "done"
  /\ << "expressjs-light.svg", "chanhdai" >> \in Lines
  /\ << "expressjs-dark.svg", "not found" >> \in Lines
  /\ disk["expressjs-light.svg"] # None
  /\ disk["expressjs-dark.svg"] = None
  /\ failed = 1
  /\ success = 2

\* C7: a response with a status in 300..399 and a Location that can be
\* fetched is followed by a request to the Location, whatever came before; a
\* 200 whose body arrives resolves the fetch with the body of the URL last
\* requested, which is what is written; anything else fails the fetch and
\* writes nothing.
C7_RedirectFollowing ==
  /\ [][\A u \in pending : \A r \in Responses(u) :
          (dpc = "await" /\ Respond(u, r)) =>
            IF r.statusCode \in 300..399 /\ r.location \in Mirrors
              THEN /\ pending' = {r.location}
                   /\ dpc' = "await"
                   /\ src' = src
                   /\ disk' = disk
                   /\ out' = out
              ELSE IF r.statusCode = 200 /\ r.complete
                     THEN /\ svg' = Body(u)
                          /\ disk' = [disk EXCEPT ![CurFile] = Body(u)]
                          /\ dpc' = "ret"
                          /\ ok'
                     ELSE /\ svg' = None
                          /\ disk' = disk
                          /\ \/ dpc' = "ret" /\ ~ok'
                             \/ dpc' = "await" /\ src = "chanhdai" /\ src' = "simpleicons"]_vars
  /\ []((dpc = "ret" /\ src = "chanhdai" /\ svg # None) =>
          /\ disk[CurFile] = svg
          /\ (hops = 0 => svg = Body(CHANHDAI_BASE \o "/" \o CurFile))
          /\ (hops > 0 => svg \in MirrorBodies))

C7_Witness ==
  /\ dpc = "ret"
  /\ src = "chanhdai"
  /\ hops >= 2
  /\ ok
  /\ disk0[CurFile] = None
  /\ disk[CurFile] \in MirrorBodies

\* C8: when every fetch settles, the run reaches the summary, and there
\* success + failed is the number of catalog entries; until then the two
\* count the entries done.
C8_Completion ==
  /\ <>(pc = "done" /\ success + failed = Len(ICONS))
  /\ [](pc = "loop" => success + failed = idx - 1)

C8_Witness ==
  /\ pc = "done"
  /\ failed = 2
  /\ success = 1
  /\ \E f \in Files : disk[f] = None

RECURSIVE CatalogOrder(_)
\* The target files of the first n entries: catalog order, light before dark.
CatalogOrder(n) ==
  IF n = 0 THEN << >>
  ELSE CatalogOrder(n - 1) \o
         (IF ICONS[n].hasTheme
            THEN << ICONS[n].key \o "-light.svg", ICONS[n].key \o "-dark.svg" >>
            ELSE << ICONS[n].key \o ".svg" >>)

\* Where a file comes in that order.
Place(f) == CHOOSE n \in 1..Len(CatalogOrder(Len(ICONS))) : CatalogOrder(Len(ICONS))[n] = f

\* C9: the progress lines come in catalog order, light before dark; at most
\* one request is outstanding, and it belongs to the file next in that order
\* after the lines printed; fetches are started in that order, the primary
\* one before the fallback one.
C9_SequentialOrdering ==
  /\ Cardinality(pending) <= 1
  /\ (dpc = "await") = (pending # {})
  /\ Len(out) <= Len(CatalogOrder(Len(ICONS)))
  /\ \A n \in 1..Len(out) : out[n][1] = CatalogOrder(Len(ICONS))[n]
  /\ dpc = "await" =>
       /\ CurFile = CatalogOrder(Len(ICONS))[Len(out) + 1]
       /\ requested[Len(requested)] = << CurFile, src >>
  /\ \A a, b \in 1..Len(requested) :
       a < b =>
         \/ Place(requested[a][1]) < Place(requested[b][1])
         \/ /\ requested[a][1] = requested[b][1]
            /\ requested[a][2] = "chanhdai"
            /\ requested[b][2] = "simpleicons"

C9_Witness ==
  /\ dpc = "await"
  /\ src = "simpleicons"
  /\ Len(out) = 2
  /\ Len(requested) = 3
  /\ pending = { SIMPLE_ICONS_BASE \o "/hono" }

\* C10 as stated: a resolution in which a write threw returns false with a
\* "not found" line.
C10_WriteFailureFails ==
  (dpc = "ret" /\ werr # {}) => (~ok /\ out[Len(out)] = << CurFile, "not found" >>)

\* C10 as amended: a write that throws is handled as a failed fetch from the
\* same source is.  In the fallback branch, and in the primary branch of a
\* resolution that has no fallback, the resolution returns false with a "not
\* found" line and its entry is counted as failed; in the primary branch of a
\* plain entry with a simpleIconsSlug the fallback fetch is started.
C10_WriteFailureCaught ==
  /\ []((dpc = "ret" /\ werr # {}
           /\ ("simpleicons" \in werr \/ suffix # "" \/ Find(key).simpleIconsSlug = "")) =>
          (~ok /\ out[Len(out)] = << CurFile, "not found" >>))
  /\ [][(werr' # werr /\ werr' # {}) =>
          IF src = "chanhdai" /\ suffix = "" /\ Find(key).simpleIconsSlug # ""
            THEN /\ dpc' = "await"
                 /\ src' = "simpleicons"
                 /\ pending' = { SIMPLE_ICONS_BASE \o "/" \o Find(key).simpleIconsSlug }
            ELSE /\ dpc' = "ret"
                 /\ ~ok'
                 /\ pending' = {}
                 /\ out' = Append(out, << CurFile, "not found" >>)]_vars
  /\ [][(pc \in {"single", "dark"} /\ pc' = "loop" /\ ~ok) =>
          (failed' = failed + 1 /\ success' = success)]_vars

C10_Witness ==
  /\ dpc = "ret"
  /\ CurFile = "honojs.svg"
  /\ werr = {"chanhdai", "simpleicons"}
  /\ ~ok
  /\ out[Len(out)] = << "honojs.svg", "not found" >>
  /\ disk["honojs.svg"] = Truncated

====
